---- MODULE Spec2Model ----
(***************************************************************************)
(* Model of github_issue_previewer/cli.py: the live preview (preview(),    *)
(* generate_html, cleanup, free_port), the HTTP handler (do_GET, do_POST)  *)
(* and the Markdown renumbering pass (hybrid_markdown_formatter).          *)
(*                                                                         *)
(* Three specifications share the variables:                               *)
(*   Spec        the preview process, the editor of the source document    *)
(*               and the clients that GET the token and the artifact;      *)
(*   SpecExport  the POST /export handler over bounded HTML snapshots;     *)
(*   SpecFormat  hybrid_markdown_formatter over bounded texts.             *)
(*                                                                         *)
(* A file is a record [exists, data]; data is a sequence, <<>> being the   *)
(* empty file that open(path, "w") leaves before the content is written.   *)
(***************************************************************************)
EXTENDS Integers, Sequences, FiniteSets, TLC

\* ---------------------------------------------------------------- bounds
\* modifications of the source document by its editor
MaxEdits == 2
\* seconds the refresh loop sleeps through (time.sleep(1) per iteration)
MaxClock == 2
\* tokens (tags and text nodes) of the HTML snapshot of an export request
MaxHtmlLen == 5
\* lines of the original text given to hybrid_markdown_formatter
MaxOrigLen == 3
\* lines of the text mdformat returns
MaxFmtLen == 3
\* tokens of the HTML snapshot of an export request handled among GETs
MaxHandlerHtmlLen == 3
\* items of the body of a source document
MaxBodyLen == 1

VARIABLES
    pc,           \* position of the main thread in preview()
    gpc,          \* position inside generate_html ("idle" outside it)
    yamlFile,     \* the source document: [exists, id, ok]
    yamlMtime,    \* yaml_file.stat().st_mtime
    lastMtime,    \* last_mtime of preview()
    data,         \* what generate_html read and rendered (html, in memory)
    htmlFile,     \* html_file
    cssFile,      \* the stylesheet copy beside html_file (exists or not)
    reloadFile,   \* reload_file
    clock,        \* time.time(), in whole seconds of sleep
    server,       \* "none" | "serving" | "closed"
    srv,          \* ThreadedTCPServer attributes [reload_file, yaml_file, output_path]
    cleanIdx,     \* how many paths cleanup()'s loop has gone through
    portFreed,    \* free_port(port) of cleanup() returned
    edits,        \* modifications made so far
    htmlWrites,   \* history: completed writes of html_file
    tokWrites,    \* history: completed writes of reload_file
    tokReads,     \* history: the observing client's first two 200 answers
                  \* of GET /reload.txt
    lastGet,      \* history: the answer to the last GET of the artifact
    intBound,     \* history: an interrupt arrived with the server bound
    lastReload,   \* history: the answer to the last GET /reload.txt
    expPc,        \* "waiting" for the POST request | "answered"
    expReq,       \* history: the request do_POST handled
    expResp,      \* the responses do_POST sent, in order
    expEscaped,   \* an exception left do_POST
    expSoup,      \* history: html_content after line 224
    expEnv,       \* history: [mdRaised, writeFails], what mdformat_text and
                  \* output_file.write_text did
    outFile,      \* the export's output file: [exists, text]
    outIs,        \* the file output_path names: "own" (a file of its own),
                  \* "artifact" (html_file) or "token" (reload_file)
    fmtPc,        \* "ready" | "done": hybrid_markdown_formatter called or not
    fmtOrig,      \* original_md
    fmtMd,        \* what mdformat_text does: [raised, lines]
    fmtOut,       \* the text hybrid_markdown_formatter returned
    rdPc,         \* "ready" | "done": lines 87-122 of generate_html ran or not
    rdDoc,        \* what yaml.safe_load returned: [kind, map]
    rdOut         \* [failed, data]: an exception, or the keyword arguments
                  \* handed to Template.render

previewVars ==
    <<pc, gpc, yamlFile, yamlMtime, lastMtime, data, htmlFile, cssFile,
      reloadFile, clock, server, srv, cleanIdx, portFreed, edits,
      htmlWrites, tokWrites, tokReads, lastGet, intBound, lastReload>>

exportVars ==
    <<expPc, expReq, expResp, expEscaped, expSoup, expEnv, outFile, outIs>>

formatVars == <<fmtPc, fmtOrig, fmtMd, fmtOut>>

renderVars == <<rdPc, rdDoc, rdOut>>

vars == <<previewVars, exportVars, formatVars, renderVars>>

\* ------------------------------------------------------------ file helpers
NoFile == [exists |-> FALSE, data |-> <<>>]

\* Path.write_text, first half: open(path, "w") creates or truncates
OpenForWrite(f) == [exists |-> TRUE, data |-> <<>>]

\* Path.write_text, second half: the content reaches the file
WriteContent(f, content) == [exists |-> TRUE, data |-> <<content>>]

\* Template(html_template).render(css=..., **data): the html of document id
RenderDoc(id) == [html |-> id]

\* a token that does not follow the time of the render
TokenValueFixed == [t |-> 0]

\* str(time.time())
TokenValue == [t |-> clock]

\* the class attributes of ThreadedTCPServer
DefaultSrv == [reload_file |-> FALSE, yaml_file |-> FALSE, output_path |-> FALSE]

\* positions of preview() inside its try block (lines 348-356)
LoopPcs == {"sleep", "check", "render", "stat1"}

\* positions at which the process has ended
EndPcs == {"aborted", "crashed", "killed", "exited"}

\* the paths cleanup() goes through, in order
CleanupPaths == <<"html", "css", "reload">>

\* ------------------------------------------------------------------- Init
PreviewInit ==
    /\ pc = "start"
    /\ gpc = "idle"
    /\ \E ex \in BOOLEAN, ok \in BOOLEAN :
          yamlFile = [exists |-> ex, id |-> 1, ok |-> ok]
    /\ yamlMtime = 1
    /\ lastMtime = 0
    /\ data = RenderDoc(0)
    /\ htmlFile = NoFile
    /\ cssFile = FALSE
    /\ reloadFile = NoFile
    /\ clock = 0
    /\ server = "none"
    /\ srv = DefaultSrv
    /\ cleanIdx = 0
    /\ portFreed = FALSE
    /\ edits = 0
    /\ htmlWrites = 0
    /\ tokWrites = 0
    /\ tokReads = <<>>
    /\ lastGet = [status |-> 0, body |-> <<>>, rendering |-> FALSE]
    /\ intBound = FALSE
    /\ lastReload = [status |-> 0, body |-> <<>>]

\* -------------------------------------------------------------- preview()
\* lines 308-324: the existence check, chdir, free_port, the template read
Start ==
    /\ pc = "start"
    /\ \/ /\ ~yamlFile.exists
          /\ pc' = "aborted"
          /\ gpc' = gpc
       \/ /\ yamlFile.exists
          /\ \E raised \in BOOLEAN :
                IF raised
                THEN pc' = "aborted" /\ gpc' = gpc
                ELSE pc' = "render0" /\ gpc' = "copy"
    /\ UNCHANGED <<yamlFile, yamlMtime, lastMtime, data, htmlFile, cssFile,
                   reloadFile, clock, server, srv, cleanIdx, portFreed, edits,
                   htmlWrites, tokWrites, tokReads, lastGet, intBound, lastReload>>
    /\ UNCHANGED <<exportVars, formatVars, renderVars>>

\* ---------------------------------------------------------- generate_html
\* lines 84-85: shutil.copy2 of the stylesheet
GenCopy ==
    /\ gpc = "copy"
    /\ cssFile' = TRUE
    /\ gpc' = "read"
    /\ UNCHANGED <<pc, yamlFile, yamlMtime, lastMtime, data, htmlFile,
                   reloadFile, clock, server, srv, cleanIdx, portFreed, edits,
                   htmlWrites, tokWrites, tokReads, lastGet, intBound, lastReload>>
    /\ UNCHANGED <<exportVars, formatVars, renderVars>>

\* a preview() that swallows the failure of the initial render and goes on
\* to bind the server
RenderFailedSwallowed(at) == IF at = "render0" THEN "bind" ELSE "crashed"

\* where an exception of generate_html takes preview(): line 326 is outside
\* any try; lines 353-355 are inside a try that catches KeyboardInterrupt only
RenderFailed(at) == IF at = "render0" THEN "aborted" ELSE "crashed"

\* lines 87-122: the document is read, parsed and rendered in memory
GenRead ==
    /\ gpc = "read"
    /\ IF yamlFile.ok
       THEN /\ data' = RenderDoc(yamlFile.id)
            /\ gpc' = "html_open"
            /\ pc' = pc
       ELSE /\ data' = data
            /\ gpc' = "idle"
            /\ pc' = RenderFailed(pc)
    /\ UNCHANGED <<yamlFile, yamlMtime, lastMtime, htmlFile, cssFile,
                   reloadFile, clock, server, srv, cleanIdx, portFreed, edits,
                   htmlWrites, tokWrites, tokReads, lastGet, intBound, lastReload>>
    /\ UNCHANGED <<exportVars, formatVars, renderVars>>

\* line 123, html_file.write_text: the file is opened for writing
GenHtmlOpen ==
    /\ gpc = "html_open"
    /\ htmlFile' = OpenForWrite(htmlFile)
    /\ gpc' = "html_write"
    /\ UNCHANGED <<pc, yamlFile, yamlMtime, lastMtime, data, cssFile,
                   reloadFile, clock, server, srv, cleanIdx, portFreed, edits,
                   htmlWrites, tokWrites, tokReads, lastGet, intBound, lastReload>>
    /\ UNCHANGED <<exportVars, formatVars, renderVars>>

\* line 123, html_file.write_text: the html is written and the file closed
GenHtmlWrite ==
    /\ gpc = "html_write"
    /\ htmlFile' = WriteContent(htmlFile, data)
    /\ htmlWrites' = htmlWrites + 1
    /\ gpc' = "tok_open"
    /\ UNCHANGED <<pc, yamlFile, yamlMtime, lastMtime, data, cssFile,
                   reloadFile, clock, server, srv, cleanIdx, portFreed, edits,
                   tokWrites, tokReads, lastGet, intBound, lastReload>>
    /\ UNCHANGED <<exportVars, formatVars, renderVars>>

\* line 124, reload_file.write_text: the file is opened for writing
GenTokOpen ==
    /\ gpc = "tok_open"
    /\ reloadFile' = OpenForWrite(reloadFile)
    /\ gpc' = "tok_write"
    /\ UNCHANGED <<pc, yamlFile, yamlMtime, lastMtime, data, htmlFile, cssFile,
                   clock, server, srv, cleanIdx, portFreed, edits,
                   htmlWrites, tokWrites, tokReads, lastGet, intBound, lastReload>>
    /\ UNCHANGED <<exportVars, formatVars, renderVars>>

\* where preview() goes on when generate_html returns
AfterRender(at) == IF at = "render0" THEN "bind" ELSE "stat1"

\* lines 124-125: the token is written, generate_html returns
GenTokWrite ==
    /\ gpc = "tok_write"
    /\ reloadFile' = WriteContent(reloadFile, TokenValue)
    /\ tokWrites' = tokWrites + 1
    /\ gpc' = "idle"
    /\ pc' = AfterRender(pc)
    /\ UNCHANGED <<yamlFile, yamlMtime, lastMtime, data, htmlFile, cssFile,
                   clock, server, srv, cleanIdx, portFreed, edits,
                   htmlWrites, tokReads, lastGet, intBound, lastReload>>
    /\ UNCHANGED <<exportVars, formatVars, renderVars>>

\* ------------------------------------------------- preview(), continued
\* lines 328-333: the server is bound, configured and its thread started
Bind ==
    /\ pc = "bind"
    /\ \/ /\ pc' = "aborted"          \* OSError: the port cannot be bound
          /\ UNCHANGED <<server, srv>>
       \/ /\ server' = "serving"
          /\ \E out \in BOOLEAN :
                srv' = [reload_file |-> TRUE, yaml_file |-> TRUE,
                        output_path |-> out]
          /\ pc' = "browser"
    /\ UNCHANGED <<gpc, yamlFile, yamlMtime, lastMtime, data, htmlFile, cssFile,
                   reloadFile, clock, cleanIdx, portFreed, edits,
                   htmlWrites, tokWrites, tokReads, lastGet, intBound, lastReload>>
    /\ UNCHANGED <<exportVars, formatVars, renderVars>>

\* lines 335-345: the browser is opened (an Exception is caught and echoed)
Browser ==
    /\ pc = "browser"
    /\ pc' = "stat0"
    /\ UNCHANGED <<gpc, yamlFile, yamlMtime, lastMtime, data, htmlFile, cssFile,
                   reloadFile, clock, server, srv, cleanIdx, portFreed, edits,
                   htmlWrites, tokWrites, tokReads, lastGet, intBound, lastReload>>
    /\ UNCHANGED <<exportVars, formatVars, renderVars>>

\* line 347: last_mtime = yaml_file.stat().st_mtime
Stat0 ==
    /\ pc = "stat0"
    /\ lastMtime' = yamlMtime
    /\ pc' = "sleep"
    /\ UNCHANGED <<gpc, yamlFile, yamlMtime, data, htmlFile, cssFile,
                   reloadFile, clock, server, srv, cleanIdx, portFreed, edits,
                   htmlWrites, tokWrites, tokReads, lastGet, intBound, lastReload>>
    /\ UNCHANGED <<exportVars, formatVars, renderVars>>

\* line 350: time.sleep(1)
Sleep ==
    /\ pc = "sleep"
    /\ clock < MaxClock
    /\ clock' = clock + 1
    /\ pc' = "check"
    /\ UNCHANGED <<gpc, yamlFile, yamlMtime, lastMtime, data, htmlFile, cssFile,
                   reloadFile, server, srv, cleanIdx, portFreed, edits,
                   htmlWrites, tokWrites, tokReads, lastGet, intBound, lastReload>>
    /\ UNCHANGED <<exportVars, formatVars, renderVars>>

\* a poll that takes every tick for a change
ChangedAlways == TRUE

\* line 351: has the modification time changed since it was last observed
Changed == yamlMtime # lastMtime

\* lines 351-353: the poll; a change starts generate_html
Check ==
    /\ pc = "check"
    /\ IF Changed
       THEN pc' = "render" /\ gpc' = "copy"
       ELSE pc' = "sleep" /\ gpc' = gpc
    /\ UNCHANGED <<yamlFile, yamlMtime, lastMtime, data, htmlFile, cssFile,
                   reloadFile, clock, server, srv, cleanIdx, portFreed, edits,
                   htmlWrites, tokWrites, tokReads, lastGet, intBound, lastReload>>
    /\ UNCHANGED <<exportVars, formatVars, renderVars>>

\* line 356: last_mtime = yaml_file.stat().st_mtime, after the render
Stat1 ==
    /\ pc = "stat1"
    /\ lastMtime' = yamlMtime
    /\ pc' = "sleep"
    /\ UNCHANGED <<gpc, yamlFile, yamlMtime, data, htmlFile, cssFile,
                   reloadFile, clock, server, srv, cleanIdx, portFreed, edits,
                   htmlWrites, tokWrites, tokReads, lastGet, intBound, lastReload>>
    /\ UNCHANGED <<exportVars, formatVars, renderVars>>

\* where a KeyboardInterrupt raised at position at takes preview(): the
\* except clause of line 357 covers the try block of lines 348-356 only
InterruptTarget(at) == IF at \in LoopPcs THEN "shutdown" ELSE "killed"

\* SIGINT: KeyboardInterrupt is raised in the main thread, wherever it is
Interrupt ==
    /\ pc \notin EndPcs
    /\ pc' = InterruptTarget(pc)
    /\ gpc' = "idle"
    /\ intBound' = (intBound \/ server # "none")
    /\ UNCHANGED <<yamlFile, yamlMtime, lastMtime, data, htmlFile, cssFile,
                   reloadFile, clock, server, srv, cleanIdx, portFreed, edits,
                   htmlWrites, tokWrites, tokReads, lastGet, lastReload>>
    /\ UNCHANGED <<exportVars, formatVars, renderVars>>

\* lines 358-361: server.shutdown(), server.server_close()
Shutdown ==
    /\ pc = "shutdown"
    /\ server' = "closed"
    /\ pc' = "cleanup"
    /\ UNCHANGED <<gpc, yamlFile, yamlMtime, lastMtime, data, htmlFile, cssFile,
                   reloadFile, clock, srv, cleanIdx, portFreed, edits,
                   htmlWrites, tokWrites, tokReads, lastGet, intBound, lastReload>>
    /\ UNCHANGED <<exportVars, formatVars, renderVars>>

\* ---------------------------------------------------------------- cleanup
\* lines 53-59, one path of the loop: an existing path is unlinked; a failing
\* unlink is caught and printed, and leaves the file
CleanupPath ==
    /\ pc = "cleanup"
    /\ cleanIdx < Len(CleanupPaths)
    /\ LET path == CleanupPaths[cleanIdx + 1] IN
       \E failed \in BOOLEAN :
          /\ htmlFile' = IF path = "html" /\ htmlFile.exists /\ ~failed
                         THEN NoFile ELSE htmlFile
          /\ cssFile' = IF path = "css" /\ cssFile /\ ~failed
                        THEN FALSE ELSE cssFile
          /\ reloadFile' = IF path = "reload" /\ reloadFile.exists /\ ~failed
                           THEN NoFile ELSE reloadFile
    /\ cleanIdx' = cleanIdx + 1
    /\ pc' = IF cleanIdx' = Len(CleanupPaths) THEN "freeport" ELSE "cleanup"
    /\ UNCHANGED <<gpc, yamlFile, yamlMtime, lastMtime, data, clock, server,
                   srv, portFreed, edits, htmlWrites, tokWrites, tokReads,
                   lastGet, intBound, lastReload>>
    /\ UNCHANGED <<exportVars, formatVars, renderVars>>

\* lines 60 and 37-48, then 363: free_port. CalledProcessError (nothing holds
\* the port) is caught; any other exception of lsof or os.kill propagates
FreePort ==
    /\ pc = "freeport"
    /\ \E raised \in BOOLEAN :
          IF raised
          THEN pc' = "crashed" /\ portFreed' = portFreed
          ELSE pc' = "exited" /\ portFreed' = TRUE
    /\ UNCHANGED <<gpc, yamlFile, yamlMtime, lastMtime, data, htmlFile, cssFile,
                   reloadFile, clock, server, srv, cleanIdx, edits,
                   htmlWrites, tokWrites, tokReads, lastGet, intBound, lastReload>>
    /\ UNCHANGED <<exportVars, formatVars, renderVars>>

\* ------------------------------------------------------------ environment
\* positions of cleanup and exit, at which the document is no longer read
TeardownPcs == {"shutdown", "cleanup", "freeport"}

\* the editor saves the source document: new content, new modification time
Edit ==
    /\ pc \notin EndPcs \cup TeardownPcs
    /\ yamlFile.exists
    /\ edits < MaxEdits
    /\ edits' = edits + 1
    /\ \E ok \in BOOLEAN :
          yamlFile' = [exists |-> TRUE, id |-> yamlFile.id + 1, ok |-> ok]
    /\ yamlMtime' = yamlMtime + 1
    /\ UNCHANGED <<pc, gpc, lastMtime, data, htmlFile, cssFile, reloadFile,
                   clock, server, srv, cleanIdx, portFreed,
                   htmlWrites, tokWrites, tokReads, lastGet, intBound, lastReload>>
    /\ UNCHANGED <<exportVars, formatVars, renderVars>>

\* ----------------------------------------------------------- Handler.do_GET
\* a handler without the except of lines 200-201: the exception of open()
\* leaves do_GET and no response is sent (status 0)
ReloadAnswerUncaught ==
    IF ~srv.reload_file THEN [status |-> 404, body |-> <<>>]
    ELSE IF ~reloadFile.exists THEN [status |-> 0, body |-> <<>>]
    ELSE [status |-> 200, body |-> reloadFile.data]

\* lines 189-201: the answer to GET /reload.txt, [status, body]
ReloadAnswer ==
    IF ~srv.reload_file THEN [status |-> 404, body |-> <<>>]
    ELSE IF ~reloadFile.exists THEN [status |-> 404, body |-> <<>>]
    ELSE [status |-> 200, body |-> reloadFile.data]

\* GET /reload.txt by the observing client, which keeps its 200 answers
GetReload ==
    /\ server = "serving"
    /\ pc \notin EndPcs
    /\ Len(tokReads) < Len(<<"first", "second">>)
    /\ tokReads' = IF ReloadAnswer.status = 200
                   THEN Append(tokReads, [tok |-> ReloadAnswer.body,
                                          w |-> htmlWrites, r |-> tokWrites])
                   ELSE tokReads
    /\ lastReload' = ReloadAnswer
    /\ UNCHANGED <<pc, gpc, yamlFile, yamlMtime, lastMtime, data, htmlFile,
                   cssFile, reloadFile, clock, server, srv, cleanIdx, portFreed,
                   edits, htmlWrites, tokWrites, lastGet, intBound>>
    /\ UNCHANGED <<exportVars, formatVars, renderVars>>

\* lines 202-203, SimpleHTTPRequestHandler.do_GET of the artifact: the file
\* as it is when the handler opens and copies it
ArtifactAnswer ==
    IF htmlFile.exists
    THEN [status |-> 200, body |-> htmlFile.data, rendering |-> gpc # "idle"]
    ELSE [status |-> 404, body |-> <<>>, rendering |-> gpc # "idle"]

\* GET /<artifact>.html
GetArtifact ==
    /\ server = "serving"
    /\ pc \notin EndPcs
    /\ lastGet' = ArtifactAnswer
    /\ UNCHANGED <<pc, gpc, yamlFile, yamlMtime, lastMtime, data, htmlFile,
                   cssFile, reloadFile, clock, server, srv, cleanIdx, portFreed,
                   edits, htmlWrites, tokWrites, tokReads, intBound,
                   lastReload>>
    /\ UNCHANGED <<exportVars, formatVars, renderVars>>

\* line 194, open(self.server.reload_file): the token file lives under /tmp
\* (lines 314-317), where something other than the program can remove it
TokenFileLost ==
    /\ server = "serving"
    /\ pc \notin EndPcs
    /\ reloadFile.exists
    /\ reloadFile' = NoFile
    /\ UNCHANGED <<pc, gpc, yamlFile, yamlMtime, lastMtime, data, htmlFile,
                   cssFile, clock, server, srv, cleanIdx, portFreed, edits,
                   htmlWrites, tokWrites, tokReads, lastGet, intBound,
                   lastReload>>
    /\ UNCHANGED <<exportVars, formatVars, renderVars>>

\* ============================================ hybrid_markdown_formatter
\* A text is [lines, nl]: its lines (str.splitlines) and whether it ends with
\* a line break. A line is [indent, digits, ws, txt]: the width of its leading
\* whitespace, the digits it starts with after that (<<>>: none), the width of
\* the whitespace after the period that follows the digits (0: no period and
\* whitespace there), and the rest of the line as a sequence of words.
Line(indent, digits, ws, txt) ==
    [indent |-> indent, digits |-> digits, ws |-> ws, txt |-> txt]

\* an empty or whitespace-only line
IsBlank(l) == l.digits = <<>> /\ l.txt = <<>>

\* int(m.group(2)): the value of a sequence of decimal digits
RECURSIVE ParseInt(_)
ParseInt(ds) ==
    IF ds = <<>> THEN 0
    ELSE 10 * ParseInt(SubSeq(ds, 1, Len(ds) - 1)) + ds[Len(ds)]

\* f"{current_num}": the decimal digits of a natural number
RECURSIVE ToDigits(_)
ToDigits(n) ==
    IF n < 10 THEN <<n>> ELSE Append(ToDigits(n \div 10), n % 10)

\* line 143: re.match(r"^(\s*)(\d+)\.\s+", line)
OrigMatch(l) == l.digits # <<>> /\ l.ws >= 1

\* lines 141-145: original_numbers.values(), in the order of the lines
RECURSIVE OriginalNumbers(_)
OriginalNumbers(lines) ==
    IF lines = <<>> THEN <<>>
    ELSE IF OrigMatch(Head(lines))
         THEN <<ParseInt(Head(lines).digits)>> \o OriginalNumbers(Tail(lines))
         ELSE OriginalNumbers(Tail(lines))

\* line 154: re.match(r"^(\s*)1\.\s+", line)
GenericMatch(l) == l.digits = <<1>> /\ l.ws >= 1

\* a substitution that drops the captured indentation
SubstituteNoIndent(l, num) == Line(0, ToDigits(num), 1, l.txt)

\* lines 159-160: the match is replaced by indentation, number, ". "
Substitute(l, num) == Line(l.indent, ToDigits(num), 1, l.txt)

\* a loop that reads the first number again for every marker instead of
\* advancing num_iter
RECURSIVE RenumberReuse(_, _)
RenumberReuse(lines, nums) ==
    IF lines = <<>> THEN <<>>
    ELSE IF GenericMatch(Head(lines)) /\ nums # <<>>
         THEN <<Substitute(Head(lines), Head(nums))>>
                  \o RenumberReuse(Tail(lines), nums)
         ELSE <<Head(lines)>> \o RenumberReuse(Tail(lines), nums)

\* a loop that stops (break) when num_iter is exhausted: the remaining lines
\* are lost
RECURSIVE RenumberNoCatch(_, _)
RenumberNoCatch(lines, nums) ==
    IF lines = <<>> THEN <<>>
    ELSE IF GenericMatch(Head(lines))
         THEN IF nums # <<>>
              THEN <<Substitute(Head(lines), Head(nums))>>
                       \o RenumberNoCatch(Tail(lines), Tail(nums))
              ELSE <<>>
         ELSE <<Head(lines)>> \o RenumberNoCatch(Tail(lines), nums)

\* lines 153-163: the loop over the formatted lines; nums is what num_iter
\* has left
RECURSIVE Renumber(_, _)
Renumber(lines, nums) ==
    IF lines = <<>> THEN <<>>
    ELSE IF GenericMatch(Head(lines)) /\ nums # <<>>
         THEN <<Substitute(Head(lines), Head(nums))>>
                  \o Renumber(Tail(lines), Tail(nums))
         ELSE <<Head(lines)>> \o Renumber(Tail(lines), nums)

\* str.strip of the joined lines, at the start: blank lines and the first
\* line's indentation go
RECURSIVE StripLeft(_)
StripLeft(lines) ==
    IF lines = <<>> THEN <<>>
    ELSE IF IsBlank(Head(lines)) THEN StripLeft(Tail(lines))
    ELSE <<[Head(lines) EXCEPT !.indent = 0]>> \o Tail(lines)

\* str.strip of the joined lines, at the end: blank lines go, and the
\* whitespace after a marker that nothing follows
RECURSIVE StripRight(_)
StripRight(lines) ==
    IF lines = <<>> THEN <<>>
    ELSE LET n == Len(lines)
             last == lines[n]
         IN IF IsBlank(last) THEN StripRight(SubSeq(lines, 1, n - 1))
            ELSE IF last.txt = <<>>
                 THEN [lines EXCEPT ![n] = [last EXCEPT !.ws = 0]]
                 ELSE lines

\* line 165: "\n".join(new_lines).strip() + "\n"
JoinStrip(lines) == [lines |-> StripRight(StripLeft(lines)), nl |-> TRUE]

\* a formatter without the try of lines 133-137: what mdformat left is
\* renumbered and returned whether it raised or not
HybridNoFallback(original, md) ==
    JoinStrip(Renumber(md.lines, OriginalNumbers(original.lines)))

\* lines 128-165. md is what mdformat_text(original_md) does: it raises, or
\* returns the text whose lines are md.lines
HybridMarkdownFormatter(original, md) ==
    IF md.raised THEN original
    ELSE JoinStrip(Renumber(md.lines, OriginalNumbers(original.lines)))

\* ---------------------------------------------- inputs of SpecFormat
\* sequences over S of length at most n
SeqsUpTo(S, n) == UNION {[1..k -> S] : k \in 0..n}

\* original lines: plain text; "2. b"; "03. c"; "7.d" (no whitespace after
\* the period, so no list marker)
OrigLineKinds ==
    { Line(0, <<>>, 0, <<"a">>), Line(0, <<2>>, 1, <<"b">>),
      Line(0, <<0, 3>>, 1, <<"c">>), Line(0, <<7>>, 0, <<"d">>) }

\* formatted lines: plain text; "1. b"; " 1.  c" (indented, two spaces after
\* the marker); "2. d" (a marker that is not the generic one); a blank line
FmtLineKinds ==
    { Line(0, <<>>, 0, <<"a">>), Line(0, <<1>>, 1, <<"b">>),
      Line(1, <<1>>, 2, <<"c">>), Line(0, <<2>>, 1, <<"d">>),
      Line(0, <<>>, 0, <<>>) }

\* mdformat's output: no blank line and no indentation at its start, no
\* blank line at its end
FmtTexts ==
    { t \in SeqsUpTo(FmtLineKinds, MaxFmtLen) :
         t = <<>> \/ (t[1].indent = 0 /\ ~IsBlank(t[1]) /\ ~IsBlank(t[Len(t)])) }

FormatInit ==
    /\ fmtPc = "ready"
    /\ \E o \in SeqsUpTo(OrigLineKinds, MaxOrigLen) :
          fmtOrig = [lines |-> o, nl |-> FALSE]
    /\ \/ fmtMd = [raised |-> TRUE, lines |-> <<>>]
       \/ \E t \in FmtTexts : fmtMd = [raised |-> FALSE, lines |-> t]
    /\ fmtOut = [lines |-> <<>>, nl |-> FALSE]

FormatIdle ==
    /\ fmtPc = "off"
    /\ fmtOrig = [lines |-> <<>>, nl |-> FALSE]
    /\ fmtMd = [raised |-> FALSE, lines |-> <<>>]
    /\ fmtOut = [lines |-> <<>>, nl |-> FALSE]

\* the call hybrid_markdown_formatter(original_md)
Format ==
    /\ fmtPc = "ready"
    /\ fmtOut' = HybridMarkdownFormatter(fmtOrig, fmtMd)
    /\ fmtPc' = "done"
    /\ UNCHANGED <<fmtOrig, fmtMd>>
    /\ UNCHANGED <<previewVars, exportVars, renderVars>>

FormatNext == Format

\* ================================== generate_html, lines 87-122: the data
\* A parsed document is [kind, map]: kind "mapping" with map a function
\* from the keys present to their values, or kind "null" (an empty file,
\* for which yaml.safe_load returns None). A value is [seq |-> ...] for a
\* list, [str |-> ...] for a string, [none |-> TRUE] for an explicit null,
\* [items |-> ...] for the body.
\* lines 114-118: the fields data.update gives a default
OptionalFields == {"assignees", "labels", "projects", "milestone", "title"}

\* a default that is the empty list for every field
DefaultAllLists(key) == [seq |-> <<>>]

\* lines 114-118: the second argument of each data.get
Default(key) ==
    IF key \in {"assignees", "labels", "projects"}
    THEN [seq |-> <<>>] ELSE [str |-> ""]

\* dict.get(key, default)
DataGet(d, key, default) == IF key \in DOMAIN d THEN d[key] ELSE default

\* MarkdownIt().render(text)
MdRender(text) == [html |-> text]

\* lines 103 and 107: the truth value of a description
Truthy(v) == v \notin {[str |-> ""], [none |-> TRUE]}

\* lines 96-104, one item of the body: [type, attributes]; a markdown item
\* with a value gets "html", an item with a non-empty description gets
\* "description_html"
RenderItem(item) ==
    LET a == item.attributes
        withHtml == item.type = "markdown" /\ "value" \in DOMAIN a
        withDesc == "description" \in DOMAIN a /\ Truthy(a["description"])
        K == DOMAIN a \cup (IF withHtml THEN {"html"} ELSE {})
                      \cup (IF withDesc THEN {"description_html"} ELSE {})
    IN [item EXCEPT !.attributes =
          [k \in K |->
              IF k = "html" /\ withHtml THEN MdRender(a["value"].str)
              ELSE IF k = "description_html" /\ withDesc
                   THEN MdRender(a["description"].str)
              ELSE a[k]]]

\* lines 94-104: the body with its items processed
RenderBody(body) == [items |-> [i \in DOMAIN body.items |-> RenderItem(body.items[i])]]

\* lines 107-110
DescriptionHtml(d) ==
    IF "description" \in DOMAIN d /\ Truthy(d["description"])
    THEN MdRender(d["description"].str) ELSE [str |-> ""]

\* lines 94-122: the keyword arguments of Template(...).render for the
\* mapping d
TemplateData(d) ==
    [k \in DOMAIN d \cup OptionalFields \cup {"description_html", "css"} |->
        IF k = "css" THEN [str |-> "github-issue-template.css"]
        ELSE IF k = "description_html" THEN DescriptionHtml(d)
        ELSE IF k \in OptionalFields THEN DataGet(d, k, Default(k))
        ELSE IF k = "body" THEN RenderBody(d[k])
        ELSE d[k]]

\* lines 87-122 for a parsed document: line 94 raises TypeError on None
GenerateData(document) ==
    IF document.kind = "mapping"
    THEN [failed |-> FALSE, data |-> TemplateData(document.map)]
    ELSE [failed |-> TRUE, data |-> <<>>]

\* ---------------------------------------------- inputs of SpecRender
ItemAttributes ==
    UNION { { a \in [S -> {[str |-> ""], [str |-> "t"]}] :
                "value" \in S => a["value"] = [str |-> "t"] } :
            S \in SUBSET {"value", "description"} }

BodyItems ==
    { [type |-> t, attributes |-> a] :
         t \in {"markdown", "input"}, a \in ItemAttributes }

\* the values a key of the document can have
KeyValues(key) ==
    IF key \in {"assignees", "labels", "projects"}
    THEN {[seq |-> <<"x">>], [none |-> TRUE]}
    ELSE IF key = "body"
    THEN {[items |-> b] : b \in SeqsUpTo(BodyItems, MaxBodyLen)}
    ELSE {[str |-> "v"], [str |-> ""]}

DocKeySeq ==
    <<"assignees", "labels", "projects", "milestone", "title",
      "description", "body">>

\* the mapping d with the key given the value v
WithKey(d, key, v) ==
    [k \in DOMAIN d \cup {key} |-> IF k = key THEN v ELSE d[k]]

\* the mappings over the first n keys: each key absent or with one of its
\* values
RECURSIVE MappingsOver(_)
MappingsOver(n) ==
    IF n = 0 THEN {<<>>}
    ELSE LET P == MappingsOver(n - 1)
         IN P \cup { WithKey(d, DocKeySeq[n], v) :
                        d \in P, v \in KeyValues(DocKeySeq[n]) }

Mappings == MappingsOver(Len(DocKeySeq))

Documents ==
    { [kind |-> "mapping", map |-> d] : d \in Mappings }
    \cup { [kind |-> "null", map |-> <<>>] }

RenderInit ==
    /\ rdPc = "ready"
    /\ rdDoc \in Documents
    /\ rdOut = [failed |-> FALSE, data |-> <<>>]

RenderIdle ==
    /\ rdPc = "off"
    /\ rdDoc = [kind |-> "null", map |-> <<>>]
    /\ rdOut = [failed |-> FALSE, data |-> <<>>]

\* lines 87-122 of a call of generate_html
RenderData ==
    /\ rdPc = "ready"
    /\ rdOut' = GenerateData(rdDoc)
    /\ rdPc' = "done"
    /\ UNCHANGED rdDoc
    /\ UNCHANGED <<previewVars, exportVars, formatVars>>

RenderDataNext == RenderData

\* ======================================================= Handler.do_POST
\* The HTML snapshot is a sequence of tokens: start tags [k, tag, id], end
\* tags and text nodes. The tags are "div" (one of tags_to_remove) and
\* "label" (not one of them, and without Markdown markup of its own); the
\* text nodes are the strings "a" and "2. b".
OpenTag(tag, id) == [k |-> "open", tag |-> tag, id |-> id, txt |-> ""]

CloseTag(tag) == [k |-> "close", tag |-> tag, id |-> "", txt |-> ""]

TextNode(txt) == [k |-> "text", tag |-> "", id |-> "", txt |-> txt]

\* line 217
tags_to_remove == {"div", "section", "p", "e", "button", "span"}

\* lines 218-222: the start-tag part of the pattern,
\* <(tags)[^>]*id="[^"]*-not-exported"[^>]*>
MarkedOpen(t) ==
    t.k = "open" /\ t.tag \in tags_to_remove /\ t.id = "x-not-exported"

\* lines 218-222: .*?</\1>, the first end tag of the same name after
\* position i (0: there is none, and the pattern does not match at i)
FirstClose(s, i) ==
    LET C == {j \in (i + 1)..Len(s) : s[j] = CloseTag(s[i].tag)}
    IN IF C = {} THEN 0 ELSE CHOOSE j \in C : \A c \in C : j <= c

\* line 224: re.sub(pattern, "", html_content), from position i on: the
\* leftmost match is dropped and the scan goes on after it
RECURSIVE PruneFrom(_, _)
PruneFrom(s, i) ==
    IF i > Len(s) THEN <<>>
    ELSE IF MarkedOpen(s[i]) /\ FirstClose(s, i) # 0
         THEN PruneFrom(s, FirstClose(s, i) + 1)
         ELSE <<s[i]>> \o PruneFrom(s, i + 1)

Prune(s) == PruneFrom(s, 1)

\* line 227, BeautifulSoup(html_content, "html.parser"): the start tags still
\* open after the tokens 1..k. An end tag closes the innermost open element
\* of its name with all that is open inside it; with no such element it is
\* dropped.
RECURSIVE OpenAfter(_, _)
OpenAfter(s, k) ==
    IF k = 0 THEN <<>>
    ELSE LET st == OpenAfter(s, k - 1)
             t == s[k]
             M == {m \in DOMAIN st : s[st[m]].tag = t.tag}
         IN CASE t.k = "open" -> Append(st, k)
              [] t.k = "text" -> st
              [] OTHER -> IF M = {} THEN st
                          ELSE SubSeq(st, 1, (CHOOSE m \in M :
                                                 \A x \in M : x <= m) - 1)

\* the last token of the element whose start tag is at position i
ElementEnd(s, i) ==
    LET K == {k \in i..Len(s) : \A m \in DOMAIN OpenAfter(s, k) :
                                   OpenAfter(s, k)[m] # i}
    IN IF K = {} THEN Len(s) ELSE CHOOSE k \in K : \A x \in K : k <= x

\* line 229, soup.find(id="issue-title-exported"): the position of the first
\* such element, 0 for None
TitleIndex(s) ==
    LET T == {i \in DOMAIN s : s[i].k = "open" /\ s[i].id = "issue-title-exported"}
    IN IF T = {} THEN 0 ELSE CHOOSE i \in T : \A x \in T : i <= x

\* the strings of the text nodes among the tokens s[i..j]
RECURSIVE Strings(_, _, _)
Strings(s, i, j) ==
    IF i > j THEN <<>>
    ELSE IF s[i].k = "text" THEN <<s[i].txt>> \o Strings(s, i + 1, j)
         ELSE Strings(s, i + 1, j)

\* lines 231-232: issue_title.get_text(strip=True).strip()
TitleText(s, i) == Strings(s, i, ElementEnd(s, i))

\* line 233, issue_title.extract(): the document without the element
Extract(s, i) ==
    SubSeq(s, 1, i - 1) \o SubSeq(s, ElementEnd(s, i) + 1, Len(s))

\* the digits a string starts with
LeadingDigits(txt) == IF txt = "2. b" THEN <<2>> ELSE <<>>

\* the string after its leading digits, period and whitespace
AfterMarker(txt) == IF txt = "2. b" THEN "b" ELSE txt

\* the line a string is
TextLine(txt) ==
    Line(0, LeadingDigits(txt), IF LeadingDigits(txt) = <<>> THEN 0 ELSE 1,
         <<AfterMarker(txt)>>)

\* line 236, md(str(soup), heading_style="ATX").strip(): the tags of the
\* model's documents carry no markup of their own; each text node gives a line
RECURSIVE Markdownify(_)
Markdownify(s) ==
    IF s = <<>> THEN <<>>
    ELSE IF Head(s).k = "text"
         THEN <<TextLine(Head(s).txt)>> \o Markdownify(Tail(s))
         ELSE Markdownify(Tail(s))

\* line 240: f"# {title_text}\n\n{markdown_body}"
WithTitle(title, body) ==
    [lines |-> <<Line(0, <<>>, 0, <<"#">> \o title), Line(0, <<>>, 0, <<>>)>>
                  \o body,
     nl |-> body = <<>>]

\* lines 239-242
MarkdownContent(title, body) ==
    IF title # <<>> THEN WithTitle(title, body)
    ELSE [lines |-> body, nl |-> FALSE]

\* line 132, the comment of the source on mdformat: lists are normalized to
\* all "1."
RECURSIVE MdNormalize(_)
MdNormalize(lines) ==
    IF lines = <<>> THEN <<>>
    ELSE <<IF OrigMatch(Head(lines))
           THEN [Head(lines) EXCEPT !.digits = <<1>>]
           ELSE Head(lines)>> \o MdNormalize(Tail(lines))

\* lines 133-137, mdformat_text on the export's Markdown: it raises, or it
\* returns the text with its list markers normalized
MdformatText(content, raised) ==
    [raised |-> raised,
     lines |-> IF raised THEN <<>> ELSE MdNormalize(content.lines)]

\* a resolution that derives the file from the document's name without
\* testing that the server knows the document
OutputFileAlwaysDerived(cfg) ==
    IF cfg.output_path THEN "output_path" ELSE "yaml.exported.md"

\* lines 244-249: the output file, "" for None
OutputFile(cfg) ==
    IF cfg.output_path THEN "output_path"
    ELSE IF cfg.yaml_file THEN "yaml.exported.md"
    ELSE ""

\* a response of the handler
Response(status, success, path) ==
    [status |-> status, success |-> success, path |-> path]

\* what a call of do_POST leaves: the responses sent, whether an exception
\* left the handler, and the text written to the output file if any
Handled(resp, escaped, wrote, text) ==
    [resp |-> resp, escaped |-> escaped, wrote |-> wrote, text |-> text]

NoText == [lines |-> <<>>, nl |-> FALSE]

\* a handler without the except clause of line 277
NotCaught == Handled(<<>>, TRUE, FALSE, NoText)

\* lines 277-282: an exception of the try block is answered with 500
Caught == Handled(<<Response(500, FALSE, "")>>, FALSE, FALSE, NoText)

\* lines 239-275: from the title test on. title is <<>> for an empty title
\* text; found tells whether line 230 bound title_text at all
Persist(found, title, body, cfg, mdRaised, writeFails) ==
    IF ~found THEN Caught          \* line 239: title_text is unbound
    ELSE LET content == MarkdownContent(title, body)
             formatted == HybridMarkdownFormatter(
                              content, MdformatText(content, mdRaised))
         IN IF OutputFile(cfg) = ""
            THEN Handled(<<Response(200, FALSE, "")>>, FALSE, FALSE, NoText)
            ELSE IF writeFails THEN Caught     \* line 258 raises OSError
            ELSE Handled(<<Response(200, TRUE, OutputFile(cfg))>>, FALSE,
                         TRUE, formatted)

\* lines 210-214: the bodies on which the try block raises before line 224
Unreadable(req) == req.kind \in {"notjson", "notobject", "htmlnotstring"}

\* lines 214-224: html_content after the substitution
PrunedHtml(req) ==
    IF Unreadable(req) \/ req.path # "/export" THEN <<>>
    ELSE Prune(IF req.kind = "nohtml" THEN <<>> ELSE req.html)

\* lines 207-282: POST /export
Export(req, cfg, mdRaised, writeFails) ==
    IF Unreadable(req)
    THEN Caught                    \* lines 210-224 raise
    ELSE LET soup == PrunedHtml(req)
             ti == TitleIndex(soup)
         IN IF ti = 0
            THEN Persist(FALSE, <<>>, Markdownify(soup), cfg, mdRaised,
                         writeFails)
            ELSE Persist(TRUE, TitleText(soup, ti),
                         Markdownify(Extract(soup, ti)), cfg, mdRaised,
                         writeFails)

\* lines 205-284
DoPostResult(req, cfg, mdRaised, writeFails) ==
    IF req.path = "/export" THEN Export(req, cfg, mdRaised, writeFails)
    ELSE Handled(<<Response(404, FALSE, "")>>, FALSE, FALSE, NoText)

\* ---------------------------------------------- inputs of SpecExport
StartTags ==
    { OpenTag("div", ""), OpenTag("div", "x-not-exported"),
      OpenTag("label", "issue-title-exported") }

TextNodes == { TextNode("a"), TextNode("2. b") }

\* the well-formed documents of exactly n tokens
RECURSIVE Forest(_)
Forest(n) ==
    IF n = 0 THEN {<<>>}
    ELSE { <<t>> \o f : t \in TextNodes, f \in Forest(n - 1) }
         \cup UNION { { <<o>> \o inner \o <<CloseTag(o.tag)>> \o rest :
                           o \in StartTags, inner \in Forest(i),
                           rest \in Forest(n - 2 - i) } : i \in 0..(n - 2) }

HtmlDocs == UNION { Forest(n) : n \in 0..MaxHtmlLen }

\* the requests: bodies that are no JSON, no JSON object, an object without
\* "html", with an "html" that is no string, and with an HTML snapshot
Requests ==
    { [path |-> p, kind |-> k, html |-> <<>>] :
         p \in {"/export", "/other"},
         k \in {"notjson", "notobject", "nohtml", "htmlnotstring"} }
    \cup { [path |-> "/export", kind |-> "html", html |-> h] : h \in HtmlDocs }

\* line 331: the files --output-path can name; the file derived from the
\* document's name (line 247) is always one of its own
OutputTargets == {"own", "artifact", "token"}

ExportInit ==
    /\ expPc = "waiting"
    /\ expReq = [path |-> "", kind |-> "", html |-> <<>>]
    /\ expResp = <<>>
    /\ expEscaped = FALSE
    /\ expSoup = <<>>
    /\ expEnv = [mdRaised |-> FALSE, writeFails |-> FALSE]
    /\ outFile = [exists |-> FALSE, text |-> NoText]
    /\ outIs \in (IF srv.output_path THEN OutputTargets ELSE {"own"})

\* one POST request out of Reqs, handled from its first line to its last
DoPostOf(Reqs) ==
    /\ expPc = "waiting"
    /\ server = "serving"
    /\ \E req \in Reqs, mdRaised \in BOOLEAN, writeFails \in BOOLEAN :
          LET h == DoPostResult(req, srv, mdRaised, writeFails)
          IN /\ expReq' = req
             /\ expResp' = h.resp
             /\ expEscaped' = h.escaped
             /\ expSoup' = PrunedHtml(req)
             /\ expEnv' = [mdRaised |-> mdRaised, writeFails |-> writeFails]
             /\ outFile' = IF h.wrote
                           THEN [exists |-> TRUE, text |-> h.text]
                           ELSE outFile
             /\ htmlFile' = IF h.wrote /\ outIs = "artifact"
                            THEN WriteContent(htmlFile, h.text)
                            ELSE htmlFile
             /\ reloadFile' = IF h.wrote /\ outIs = "token"
                              THEN WriteContent(reloadFile, h.text)
                              ELSE reloadFile
    /\ expPc' = "answered"
    /\ UNCHANGED <<pc, gpc, yamlFile, yamlMtime, lastMtime, data, cssFile,
                   clock, server, srv, cleanIdx, portFreed, edits, htmlWrites,
                   tokWrites, tokReads, lastGet, intBound, lastReload, outIs>>
    /\ UNCHANGED <<formatVars, renderVars>>

DoPost == DoPostOf(Requests)

ExportNext == DoPost

\* ------------------------------------------------------------------- Spec
ExportIdle ==
    /\ expPc = "off"
    /\ expReq = [path |-> "", kind |-> "", html |-> <<>>]
    /\ expResp = <<>>
    /\ expEscaped = FALSE
    /\ expSoup = <<>>
    /\ expEnv = [mdRaised |-> FALSE, writeFails |-> FALSE]
    /\ outFile = [exists |-> FALSE, text |-> NoText]
    /\ outIs = "own"

PreviewNext ==
    \/ Start \/ GenCopy \/ GenRead \/ GenHtmlOpen \/ GenHtmlWrite
    \/ GenTokOpen \/ GenTokWrite \/ Bind \/ Browser \/ Stat0 \/ Sleep
    \/ Check \/ Stat1 \/ Interrupt \/ Shutdown \/ CleanupPath \/ FreePort
    \/ Edit \/ GetReload \/ GetArtifact

Init == PreviewInit /\ ExportIdle /\ FormatIdle /\ RenderIdle

Next == PreviewNext

Spec == Init /\ [][Next]_vars

\* the preview as it is while the server serves: the state of SpecExport
\* and SpecFormat outside the variables they are about
PreviewServing ==
    /\ pc = "sleep"
    /\ gpc = "idle"
    /\ yamlFile = [exists |-> TRUE, id |-> 1, ok |-> TRUE]
    /\ yamlMtime = 1
    /\ lastMtime = 1
    /\ data = RenderDoc(1)
    /\ htmlFile = WriteContent(NoFile, RenderDoc(1))
    /\ cssFile = TRUE
    /\ clock = 0
    /\ reloadFile = WriteContent(NoFile, TokenValue)
    /\ server = "serving"
    /\ cleanIdx = 0
    /\ portFreed = FALSE
    /\ edits = 0
    /\ htmlWrites = 1
    /\ tokWrites = 1
    /\ tokReads = <<>>
    /\ lastGet = [status |-> 0, body |-> <<>>, rendering |-> FALSE]
    /\ intBound = FALSE
    /\ lastReload = [status |-> 0, body |-> <<>>]

\* the attributes preview() gives the server when no --output-path is given
PreviewSrv == [DefaultSrv EXCEPT !.reload_file = TRUE, !.yaml_file = TRUE]

\* the server serves with yaml_file and reload_file as preview() sets them or
\* left at the class defaults (None), and with or without an output_path
SpecExportInit ==
    /\ PreviewServing
    /\ \E y \in BOOLEAN, o \in BOOLEAN :
          srv = [reload_file |-> y, yaml_file |-> y, output_path |-> o]
    /\ ExportInit /\ FormatIdle /\ RenderIdle

SpecExport == SpecExportInit /\ [][ExportNext]_vars

\* the requests a serving server handles (POST /export with a short
\* snapshot, GET of the token and of the artifact), with the token file at
\* the mercy of /tmp
HandlerRequests ==
    {r \in Requests : Len(r.html) <= MaxHandlerHtmlLen}

HandlerPost == DoPostOf(HandlerRequests)

HandlerNext == HandlerPost \/ GetReload \/ GetArtifact \/ TokenFileLost

SpecHandler == SpecExportInit /\ [][HandlerNext]_vars

SpecFormatInit ==
    PreviewServing /\ srv = PreviewSrv /\ ExportIdle /\ FormatInit
       /\ RenderIdle

SpecFormat == SpecFormatInit /\ [][FormatNext]_vars

\* generate_html at its initial call (line 326): nothing rendered yet, no
\* server
SpecRenderInit ==
    /\ PreviewInit /\ yamlFile.exists /\ yamlFile.ok
    /\ ExportIdle /\ FormatIdle /\ RenderInit

SpecRender == SpecRenderInit /\ [][RenderDataNext]_vars

\* ================================================================ claims
\* The formulas of C1-C5 are checked under Spec.

\* C1: in the refresh loop, a re-render that fails on a malformed source
\* document does not end the loop: the step leaves the artifact and the
\* refresh token as they were and preview() stays in its polling loop.
C1_RenderFailureKeepsPolling ==
    [][(GenRead /\ pc = "render" /\ ~yamlFile.ok)
          => (pc' \in LoopPcs /\ htmlFile' = htmlFile
              /\ reloadFile' = reloadFile)]_vars

\* the refresh loop is idle: sleeping or about to compare the timestamps
Idle == pc \in {"sleep", "check"}

\* C2: whenever the loop is idle with its last-observed timestamp equal to
\* the current timestamp of a well-formed source, the artifact is the
\* rendering of the source's current content.
C2_IdleMeansLatest ==
    (Idle /\ lastMtime = yamlMtime /\ yamlFile.ok)
        => htmlFile.data = <<RenderDoc(yamlFile.id)>>

\* C3 as claimed: two reads of the token that return the same value have no
\* rewrite of the artifact between them.
C3_SameTokenNoRewrite ==
    \A i, j \in DOMAIN tokReads :
        (i < j /\ tokReads[i].tok = tokReads[j].tok)
            => tokReads[i].w = tokReads[j].w

\* C3 as amended: two reads of the token that return the same non-empty
\* value have no completed render (no write of the token) between them, and
\* at most one rewrite of the artifact, by a render that has not yet written
\* its token at the second read.
C3_SameTokenNoRenderCompleted ==
    \A i, j \in DOMAIN tokReads :
        (i < j /\ tokReads[i].tok = tokReads[j].tok /\ tokReads[i].tok # <<>>)
            => /\ tokReads[i].r = tokReads[j].r
               /\ tokReads[j].w - tokReads[i].w \in {0, 1}

\* two reads returned the same non-empty token around a rewrite of the artifact
C3_Witness ==
    /\ Len(tokReads) = 2
    /\ tokReads[1].tok = tokReads[2].tok
    /\ tokReads[1].tok # <<>>
    /\ tokReads[2].w = tokReads[1].w + 1

\* C4: a GET of the artifact answered with 200 while a render is in progress
\* carries a complete artifact (one rendering), never an empty one.
C4_ArtifactGetComplete ==
    (lastGet.status = 200 /\ lastGet.rendering)
        => \E id \in 1..(MaxEdits + 1) : lastGet.body = <<RenderDoc(id)>>

\* C5: once an interrupt has arrived with the server bound, the process ends
\* only after full teardown: the server closed, cleanup() through all three
\* paths, and free_port returned.
C5_InterruptTeardown ==
    (intBound /\ pc \in EndPcs)
        => (server = "closed" /\ cleanIdx = Len(CleanupPaths) /\ portFreed)

\* The formulas of C9 and C10 are checked under SpecFormat.

\* the positions of the lines of a text that satisfy Match
Matching(lines, Match(_)) == {i \in DOMAIN lines : Match(lines[i])}

\* the rank of position i among the positions S: 1 for the first, ...
Rank(S, i) == Cardinality({j \in S : j <= i})

\* C9: when mdformat returns, the k-th line of its text that carries the
\* generic marker comes out with the k-th integer of the original text in
\* place of the marker, its indentation and its text kept; no line is lost.
C9_KthMarkerGetsKthNumber ==
    (fmtPc = "done" /\ ~fmtMd.raised) =>
        LET F == fmtMd.lines
            O == fmtOrig.lines
            G == Matching(F, GenericMatch)
            E == Matching(O, OrigMatch)
        IN /\ Len(fmtOut.lines) = Len(F)
           /\ \A i \in G, e \in E :
                 Rank(G, i) = Rank(E, e) =>
                    fmtOut.lines[i] =
                       Line(F[i].indent, ToDigits(ParseInt(O[e].digits)), 1,
                            F[i].txt)

\* two generic markers, the second indented, received different numbers
C9_Witness ==
    /\ fmtPc = "done" /\ ~fmtMd.raised
    /\ \E i, j \in Matching(fmtMd.lines, GenericMatch) :
          /\ i < j
          /\ fmtMd.lines[j].indent = 1
          /\ fmtOut.lines[j].indent = 1
          /\ fmtOut.lines[i].digits = <<2>>
          /\ fmtOut.lines[j].digits = <<3>>

\* C10: with more generic-marker lines than original integers the call
\* still returns every line: the first generic-marker lines carry the
\* integers in order, the generic-marker lines after them are unchanged.
C10_ExhaustedLeavesMarkers ==
    LET F == fmtMd.lines
        O == fmtOrig.lines
        G == Matching(F, GenericMatch)
        E == Matching(O, OrigMatch)
    IN (fmtPc = "done" /\ ~fmtMd.raised /\ Cardinality(G) > Cardinality(E)) =>
          /\ Len(fmtOut.lines) = Len(F)
          /\ \A i \in G :
                IF Rank(G, i) > Cardinality(E)
                THEN fmtOut.lines[i] = F[i]
                ELSE \E e \in E :
                        /\ Rank(E, e) = Rank(G, i)
                        /\ fmtOut.lines[i].digits = ToDigits(ParseInt(O[e].digits))

\* one integer for two generic markers: the second marker stayed "1."
C10_Witness ==
    /\ fmtPc = "done" /\ ~fmtMd.raised
    /\ Cardinality(Matching(fmtOrig.lines, OrigMatch)) = 1
    /\ Cardinality(Matching(fmtMd.lines, GenericMatch)) = 2
    /\ \E i \in Matching(fmtMd.lines, GenericMatch) :
          fmtOut.lines[i] = fmtMd.lines[i] /\ Rank(Matching(fmtMd.lines, GenericMatch), i) = 2

\* The formulas of C6-C8 are checked under SpecExport.

\* C6: a POST /export, whatever its body, is answered exactly once, with 200
\* or 500; 500 carries success=false and is the answer whenever parsing
\* raised; 200 with success=true comes with the file written; no exception
\* leaves the handler and the server goes on serving.
C6_ExportAnsweredOnce ==
    (expPc = "answered" /\ expReq.path = "/export") =>
        /\ Len(expResp) = 1
        /\ ~expEscaped
        /\ server = "serving"
        /\ expResp[1].status \in {200, 500}
        /\ expResp[1].status = 500 => ~expResp[1].success
        /\ Unreadable(expReq) => expResp[1].status = 500
        /\ expResp[1].success => (expResp[1].status = 200 /\ outFile.exists)

\* a body that is no JSON was answered with 500 and success=false
C6_Witness ==
    /\ expPc = "answered"
    /\ expReq.path = "/export" /\ expReq.kind = "notjson"
    /\ expResp = <<Response(500, FALSE, "")>>

\* the lines of a text that are a top-level heading
Headings(text) ==
    {i \in DOMAIN text.lines :
        text.lines[i].txt # <<>> /\ text.lines[i].txt[1] = "#"}

\* C7: an export under the server of preview() whose write succeeds: when the pruned
\* snapshot holds the exported-title element (with text), the Markdown starts
\* with the title as a heading, a blank line before what follows it, and
\* has no other heading;
\* when it holds no such element, the export succeeds all the same and the
\* Markdown has no heading.
C7_TitleHeadingOrNone ==
    (/\ expPc = "answered" /\ expReq.path = "/export"
     /\ expReq.kind = "html" /\ srv.yaml_file
     /\ OutputFile(srv) # "" /\ ~expEnv.writeFails) =>
        LET ti == TitleIndex(expSoup)
            lines == outFile.text.lines
        IN IF ti # 0
           THEN TitleText(expSoup, ti) # <<>> =>
                   /\ expResp = <<Response(200, TRUE, OutputFile(srv))>>
                   /\ lines # <<>>
                   /\ lines[1].txt = <<"#">> \o TitleText(expSoup, ti)
                   /\ Len(lines) >= 2 => IsBlank(lines[2])
                   /\ Headings(outFile.text) = {1}
           ELSE /\ expResp = <<Response(200, TRUE, OutputFile(srv))>>
                /\ outFile.exists
                /\ Headings(outFile.text) = {}

\* the end tag that balances the start tag at position i of a well-formed
\* document
MatchingClose(s, i) ==
    CHOOSE j \in (i + 1)..Len(s) :
        /\ Cardinality({k \in i..j : s[k].k = "open"})
              = Cardinality({k \in i..j : s[k].k = "close"})
        /\ \A x \in (i + 1)..(j - 1) :
              Cardinality({k \in i..x : s[k].k = "open"})
                 # Cardinality({k \in i..x : s[k].k = "close"})

\* the document without the subtrees of its marked elements
RECURSIVE WithoutMarkedSubtrees(_, _)
WithoutMarkedSubtrees(s, i) ==
    IF i > Len(s) THEN <<>>
    ELSE IF MarkedOpen(s[i])
         THEN WithoutMarkedSubtrees(s, MatchingClose(s, i) + 1)
         ELSE <<s[i]>> \o WithoutMarkedSubtrees(s, i + 1)

\* C8: under the server of preview(), what the prune step leaves of a
\* snapshot is the snapshot without the
\* whole subtree of every marked element of the reserved tags, every other
\* token kept.
C8_PruneSubtreeComplete ==
    (/\ expPc = "answered" /\ expReq.path = "/export"
     /\ expReq.kind = "html" /\ srv.yaml_file)
        => expSoup = WithoutMarkedSubtrees(expReq.html, 1)

\* The formulas of C11 and C12 are checked under SpecExport.

\* the export reached line 253: the body was read, title_text is bound and
\* an output file was resolved
FormatterCalled ==
    /\ expPc = "answered" /\ expReq.path = "/export"
    /\ ~Unreadable(expReq)
    /\ TitleIndex(expSoup) # 0
    /\ OutputFile(srv) # ""

\* the Markdown of lines 236-242 for the pruned snapshot, before any
\* formatting
ConvertedMarkdown ==
    LET ti == TitleIndex(expSoup)
    IN MarkdownContent(TitleText(expSoup, ti), Markdownify(Extract(expSoup, ti)))

\* C11: when the export calls the formatter with an output file resolved and
\* mdformat raises, the export does not fail: unless the write itself
\* fails, the converted Markdown is written as it is (explicit list numbers
\* included) and the one answer is 200 with success=true and the path.
C11_MdformatFailureFallsBack ==
    (FormatterCalled /\ expEnv.mdRaised /\ ~expEnv.writeFails) =>
        /\ expResp = <<Response(200, TRUE, OutputFile(srv))>>
        /\ ~expEscaped
        /\ outFile.exists
        /\ outFile.text = ConvertedMarkdown

\* mdformat raised on a snapshot with a title and the item "2. b": the file
\* holds the heading and the item with its number, and the answer is success
C11_Witness ==
    /\ FormatterCalled /\ expEnv.mdRaised /\ ~expEnv.writeFails
    /\ expResp = <<Response(200, TRUE, OutputFile(srv))>>
    /\ Headings(outFile.text) = {1}
    /\ \E i \in DOMAIN outFile.text.lines :
          outFile.text.lines[i].digits = <<2>>

\* the server has neither an output path nor the path of the source document
NoDestination == ~srv.output_path /\ ~srv.yaml_file

\* C12: an export handled by a server with neither an output path nor a
\* source document path is answered once with success=false (status 200
\* when the pipeline gets as far as resolving the file) and writes no file;
\* and an answer with success=true names the resolved file, which is the
\* output path if configured and else the file derived from the document's
\* name, and that file was written.
C12_NoDestinationNoSuccess ==
    (expPc = "answered" /\ expReq.path = "/export") =>
        /\ Len(expResp) = 1
        /\ NoDestination =>
              /\ ~expResp[1].success
              /\ ~outFile.exists
              /\ (~Unreadable(expReq) /\ TitleIndex(expSoup) # 0)
                    => expResp = <<Response(200, FALSE, "")>>
        /\ expResp[1].success =>
              /\ ~NoDestination
              /\ outFile.exists
              /\ expResp[1].path =
                    (IF srv.output_path THEN "output_path" ELSE "yaml.exported.md")

\* a snapshot with a title, exported by a server without any destination:
\* answered 200 with success=false, nothing written
C12_Witness ==
    /\ expPc = "answered" /\ expReq.path = "/export"
    /\ NoDestination
    /\ expReq.kind = "html" /\ TitleIndex(expSoup) # 0
    /\ expResp = <<Response(200, FALSE, "")>>
    /\ ~outFile.exists

\* The formulas of C13 and C18 are checked under SpecHandler.

\* C13: every GET of /reload.txt is answered 200 or 404 and nothing else:
\* 200 carries the content the token file has at that moment (the token
\* path is configured and the file is there), 404 comes only when no token
\* path is configured or the file cannot be opened; no exception leaves the
\* handler, the server goes on serving and the main thread is not disturbed.
C13_ReloadGet200Or404 ==
    [][GetReload =>
          /\ lastReload'.status \in {200, 404}
          /\ lastReload'.status = 200 =>
                /\ srv.reload_file /\ reloadFile.exists
                /\ lastReload'.body = reloadFile.data
          /\ lastReload'.status = 404 =>
                (~srv.reload_file \/ ~reloadFile.exists)
          /\ server' = "serving" /\ pc' = pc]_vars

\* the token path is configured and the token file is gone: the GET was
\* answered 404
C13_Witness ==
    /\ srv.reload_file /\ ~reloadFile.exists
    /\ lastReload.status = 404

\* The formulas of C14-C16 and C19 are checked under Spec.

\* C14: the server is bound only after the initial render has written the
\* artifact and the token; with the source document missing the server is
\* never bound, and an initial render that fails on an unparsable document
\* aborts preview() with the server unbound; an aborted preview() holds no
\* server.
C14_BindAfterInitialRender ==
    /\ [](server # "none" => (yamlFile.exists /\ htmlWrites >= 1 /\ tokWrites >= 1))
    /\ [](pc = "aborted" => server = "none")
    /\ [][(GenRead /\ pc = "render0" /\ ~yamlFile.ok)
            => (pc' = "aborted" /\ server' = "none")]_vars

\* the initial render began and failed: preview() aborted, nothing rendered,
\* no server
C14_Witness ==
    /\ pc = "aborted" /\ cssFile /\ ~yamlFile.ok
    /\ htmlWrites = 0 /\ server = "none"

\* C15: once teardown has begun (the server is closed), no failure of a
\* deletion or of the port release is propagated: cleanup() goes through all
\* three paths whatever unlink does, free_port is reached only after that,
\* and unless a further interrupt kills it the process ends by returning
\* from preview(), never by an exception.
C15_TeardownFailuresNotPropagated ==
    /\ pc = "freeport" => cleanIdx = Len(CleanupPaths)
    /\ (server = "closed" /\ pc \in EndPcs \ {"killed"})
          => (pc = "exited" /\ cleanIdx = Len(CleanupPaths))

\* C16: in the refresh loop a render starts only at the poll of a tick, and
\* only when the timestamp differs from the last observed one; the artifact
\* and the token change only inside such a render, with the timestamps still
\* different; there is at most one render per tick and per modification (the
\* initial render aside); and a render that completes has written the
\* artifact once and the token once.
C16_RenderOnlyOnChange ==
    /\ [][(pc' = "render" /\ pc # "render")
            => (pc = "check" /\ yamlMtime # lastMtime)]_vars
    /\ [][(pc \in LoopPcs /\ (htmlFile' # htmlFile \/ reloadFile' # reloadFile))
            => (pc = "render" /\ yamlMtime # lastMtime)]_vars
    /\ [](htmlWrites <= 1 + clock /\ htmlWrites <= 1 + edits)
    /\ [](tokWrites <= htmlWrites /\ htmlWrites <= tokWrites + 1)
    /\ [](pc \in {"sleep", "check", "stat1"} => tokWrites = htmlWrites)

\* two ticks and one modification: one tick rendered (artifact and token
\* written a second time), the other found no change and wrote nothing
C16_Witness ==
    /\ pc = "sleep" /\ clock = 2 /\ edits = 1
    /\ lastMtime = yamlMtime
    /\ htmlWrites = 2 /\ tokWrites = 2

\* The formula of C17 is checked under SpecRender.

\* C17: for every document that is a mapping, lines 87-122 raise nothing,
\* and what the template receives for each of assignees, labels, projects,
\* milestone and title is the document's value when the key is present and
\* else the empty list (the first three) or the empty string (the last two).
C17_DefaultsForAbsentFields ==
    (rdPc = "done" /\ rdDoc.kind = "mapping") =>
        /\ ~rdOut.failed
        /\ \A k \in {"assignees", "labels", "projects"} :
              rdOut.data[k] = (IF k \in DOMAIN rdDoc.map THEN rdDoc.map[k]
                               ELSE [seq |-> <<>>])
        /\ \A k \in {"milestone", "title"} :
              rdOut.data[k] = (IF k \in DOMAIN rdDoc.map THEN rdDoc.map[k]
                               ELSE [str |-> ""])

\* a document with labels and a body but neither title nor milestone nor
\* assignees: the template got the labels as they are and the defaults
C17_Witness ==
    /\ rdPc = "done" /\ rdDoc.kind = "mapping"
    /\ DOMAIN rdDoc.map = {"labels", "body"}
    /\ rdOut.data["labels"] = [seq |-> <<"x">>]
    /\ rdOut.data["title"] = [str |-> ""]
    /\ rdOut.data["milestone"] = [str |-> ""]
    /\ rdOut.data["assignees"] = [seq |-> <<>>]

\* C18: under the server as preview() configures it, no request writes,
\* truncates or deletes the artifact or the token: a POST /export, a GET of
\* the token and a GET of the artifact each leave both files as they are,
\* whatever the output path.
C18_HandlersWriteNeither ==
    [][(srv.yaml_file /\ srv.reload_file
          /\ (HandlerPost \/ GetReload \/ GetArtifact))
         => (htmlFile' = htmlFile /\ reloadFile' = reloadFile)]_vars

\* C19: the token is never written more often than the artifact, and a GET
\* of the artifact that follows the observation of a token (the token of
\* render N, the N-th written) is answered 200 with a complete artifact, that
\* of the N-th write of the artifact or of a later one.
C19_TokenThenArtifactNotOlder ==
    /\ [](tokWrites <= htmlWrites)
    /\ [][GetArtifact =>
            \A i \in DOMAIN tokReads :
               tokReads[i].tok # <<>> =>
                  /\ lastGet'.status = 200
                  /\ lastGet'.body # <<>>
                  /\ htmlWrites >= tokReads[i].r]_vars

\* The formula of C20 is checked under SpecFormat.

\* C20: when mdformat returns, the text that comes out has the lines of
\* mdformat's text in their order, none added, none removed; a line that
\* does not begin with the generic marker is unchanged; a line that does
\* keeps its indentation and its text; and the lines that changed carry each
\* integer at most as often as the original text does.
C20_OnlyGenericMarkersChange ==
    (fmtPc = "done" /\ ~fmtMd.raised) =>
        LET F == fmtMd.lines
            O == fmtOrig.lines
            out == fmtOut.lines
            G == Matching(F, GenericMatch)
            E == Matching(O, OrigMatch)
            changed == {i \in DOMAIN F : out[i] # F[i]}
        IN /\ Len(out) = Len(F)
           /\ changed \subseteq G
           /\ \A i \in G : out[i].indent = F[i].indent /\ out[i].txt = F[i].txt
           /\ \A i \in changed :
                 Cardinality({j \in changed : out[j].digits = out[i].digits})
                    <= Cardinality({e \in E : ToDigits(ParseInt(O[e].digits))
                                                = out[i].digits})

\* a text with a renumbered marker, a blank line and a marker that is not
\* the generic one, both as mdformat left them
C20_Witness ==
    /\ fmtPc = "done" /\ ~fmtMd.raised
    /\ Len(fmtOut.lines) = 3
    /\ fmtOut.lines[1] # fmtMd.lines[1]
    /\ IsBlank(fmtMd.lines[2]) /\ fmtOut.lines[2] = fmtMd.lines[2]
    /\ fmtMd.lines[3].digits = <<2>> /\ fmtOut.lines[3] = fmtMd.lines[3]

====
